---- MODULE Spec2Model ----
(***************************************************************************)
(* Model of rpyc_service.py: the XrayService control service (session      *)
(* guard, engine process lifecycle) and the XrayCoreLogsHandler log        *)
(* batching thread.                                                        *)
(*                                                                         *)
(* XRayCore and XRayConfig (module xray) are collaborators whose code is   *)
(* not part of the modelled file; the operators CoreStopOutcomes,          *)
(* LaunchOutcomes, ConfigOutcome and Started describe them as the          *)
(* specification does.                                                     *)
(***************************************************************************)
EXTENDS Integers, Sequences, FiniteSets, TLC

\* ------------------------------------------------------------------ bounds
MaxConns == 2
MaxCores == 2
MaxPeers == 2

Conns   == 1..MaxConns
CoreIds == 1..MaxCores
Peers   == 1..MaxPeers

\* Python's None for self.connection, self.core and connection.peer.
NoConn == 0
NoCore == 0
NoPeer == 0

\* The log batcher: lines produced, ticks of 0.1 s the clock may advance.
MaxLines == 3
MaxTime  == 8

\* interval = 0.6 and time.sleep(0.2), in ticks of 0.1 s.
Interval == 6
Sleep    == 2

\* time.time() when the batcher is created: seconds since 1970, far beyond
\* any interval.
Epoch == 100 * Interval

InitialLastSentNow == Epoch

\* last_sent_ts = 0
InitialLastSent == 0

\* The newline f'{log}\n' appends; the lines themselves are 1, 2, ...
NL == 0

Batchers == {1, 2}

Configs   == {"good", "bad"}
Callbacks == {"on_start", "on_stop"}

VARIABLES
    connection,   \* self.connection: NoConn or the recorded channel
    core,         \* self.core: NoCore or the recorded XRayCore handle
    connState,    \* per channel: "closed"; "open" or "lost" (recorded, its transport
                  \* up or down); "stale" (rejected or superseded, its disconnect
                  \* notification still to come)
    peer,         \* self.connection.peer (NoPeer while no session was recorded)
    root,         \* the callbacks self.connection.root exposes
    running,      \* the handles whose engine process is running
    procPeer,     \* per handle: the peer identity its running config is bound to
    wired,        \* the hooks registered on the recorded handle
    last,         \* the last handler that ran and how it ended
    hist,         \* exposed start/stop calls seen: "none", "stop", "start1", "start2"
    now,          \* time.time(), in ticks
    logs,         \* the log source the batchers drain (core.get_logs())
    produced,     \* how many lines the engine has written
    early,        \* how many of them within the first interval
    active,       \* per batcher: self.active
    pc,           \* per batcher: where its cast() thread is
    cache,        \* per batcher: cache
    last_sent_ts, \* per batcher: last_sent_ts
    wake,         \* per batcher: when its time.sleep(0.2) ends
    delivered,    \* per batcher: the callback invocations, [t, payload]
    stopPc        \* per batcher: the caller's stop(): "idle", "joining", "returned"

svars == <<connection, core, connState, peer, root, running, procPeer,
           wired, last, hist>>

lvars == <<now, logs, produced, early, active, pc, cache, last_sent_ts, wake,
           delivered, stopPc>>

vars == <<svars, lvars>>

\* The batchers' state but for their active flags.
lvarsButActive == <<now, logs, produced, early, pc, cache, last_sent_ts, wake,
                    delivered, stopPc>>

\* op: the handler or event; ret: "ok" or what it raised; cb: what the
\* controller callbacks it invoked did; logged: whether it logged; inner: how
\* the call it guards ended (the probe, core.stop(), the try block of start).
Last(o, r, cb, lg, in) == [op |-> o, ret |-> r, cb |-> cb, logged |-> lg, inner |-> in]

\* -------------------------------------------------- collaborators (xray)
\* XRayCore.started: the handle's running flag.
Started(i) == i \in running

\* XRayCore.stop(): terminates a running process; on a process that is not
\* running it may return or report "already stopped" (RuntimeError).
CoreStopOutcomes(i) == IF Started(i) THEN {"ok"} ELSE {"ok", "RuntimeError"}

\* XRayCore.start(config): the launch succeeds or fails.
LaunchOutcomes == {"ok", "ProcessError"}

\* XRayConfig(config, peer): rejects an invalid configuration.
ConfigOutcome(cfg) == IF cfg = "good" THEN "ok" ELSE "ConfigError"

\* XRayCore(executable_path, assets_path): a new handle, one that denotes
\* neither a running process, nor the recorded handle, nor old, the handle
\* that was recorded when the handler was entered.
FreeCores(old, s) == CoreIds \ (s.running \cup {s.core, old})

NewCore(old, s) == CHOOSE i \in FreeCores(old, s) : \A j \in FreeCores(old, s) : i <= j

\* ------------------------------------------------------- session guard
\* connection.ping() on the recorded session.
PingOutcomes(c) ==
    IF connState[c] = "open" THEN {"ok", "TimeoutError"}
    ELSE {"EOFError", "TimeoutError", "AttributeError"}

ProbeFailedNoTimeout(ping) == ping \in {"EOFError", "AttributeError"}

\* except (EOFError, TimeoutError, AttributeError)
ProbeFailed(ping) == ping \in {"EOFError", "TimeoutError", "AttributeError"}

\* ------------------------------------------------ controller callbacks
\* self.connection.root.<name>() as the hook calls it; live says whether the
\* recorded channel still answers.
CallbackOutcomes(name, live) ==
    IF connection = NoConn THEN {"skipped"}
    ELSE IF name \notin root THEN {"AttributeError"}
    ELSE IF ~live THEN {"EOFError"}
    ELSE {"returned", "Exception"}

Live == connection # NoConn /\ connState[connection] = "open"

HookPropagates(cb) == IF cb \in {"none", "skipped", "returned"} THEN "ok" ELSE cb

\* The wired on_start/on_stop closure: try: ... except Exception: logger.debug.
\* What leaves the hook for a callback that ended cb.
HookResult(cb) == "ok"

\* What the last handler's controller callbacks did.
CbSummary(cbs) ==
    IF cbs \cap {"Exception", "AttributeError", "EOFError"} # {} THEN "raised"
    ELSE IF "returned" \in cbs THEN "returned"
    ELSE "none"

\* ------------------------------------------------ process handle state
\* The part of the service state the lifecycle operations rewrite.
Handle(c, r, w, pp) == [core |-> c, running |-> r, wired |-> w, procPeer |-> pp]

Cur == Handle(core, running, wired, procPeer)

\* Whether stopping s.core fires the on_stop hook, and the callback outcomes.
StopHookFires(s) == s.core # NoCore /\ s.core \in s.running /\ "on_stop" \in s.wired

StopCbChoices(s, live) ==
    IF StopHookFires(s) THEN CallbackOutcomes("on_stop", live) ELSE {"none"}

StopOutChoices(s) ==
    IF s.core = NoCore THEN {"ok"} ELSE CoreStopOutcomes(s.core)

\* self.core.stop(): the process is terminated, then the hook runs; exc is
\* what the call raises ("ok" when it returns).
CoreStop(s, out, cb) ==
    [s   |-> [s EXCEPT !.running = s.running \ {s.core},
                       !.procPeer = [i \in CoreIds |->
                                       IF i = s.core THEN NoPeer ELSE s.procPeer[i]]],
     exc |-> IF cb # "none" /\ HookResult(cb) # "ok" THEN HookResult(cb) ELSE out]

StopSwallowsNothing(exc) == exc = "ok"

\* stop(): except RuntimeError: pass
StopSwallows(exc) == exc \in {"ok", "RuntimeError"}

ClearsHandleOnSuccess(exc) == exc = "ok"

\* stop(): self.core = None, reached whenever nothing was raised past the try.
ClearsHandle(exc) == TRUE

\* XrayService.stop() as a function of the handle state.
StopF(s, out, cb) ==
    IF s.core = NoCore
    THEN [s |-> s, exc |-> "ok"]
    ELSE LET r == CoreStop(s, out, cb)
         IN IF ~StopSwallows(r.exc) THEN r
            ELSE [s   |-> IF ClearsHandle(r.exc)
                          THEN [r.s EXCEPT !.core = NoCore, !.wired = {}]
                          ELSE r.s,
                  exc |-> "ok"]

Install(s) ==
    /\ core' = s.core
    /\ running' = s.running
    /\ wired' = s.wired
    /\ procPeer' = s.procPeer

Init ==
    /\ connection = NoConn
    /\ core = NoCore
    /\ connState = [c \in Conns |-> "closed"]
    /\ peer = NoPeer
    /\ root = {}
    /\ running = {}
    /\ procPeer = [i \in CoreIds |-> NoPeer]
    /\ wired = {}
    /\ last = Last("init", "ok", "none", FALSE, "none")
    /\ hist = "none"
    /\ now = Epoch
    /\ logs = <<>>
    /\ produced = 0
    /\ early = 0
    /\ active = [b \in Batchers |-> TRUE]
    /\ pc = [b \in Batchers |-> "while"]
    /\ cache = [b \in Batchers |-> <<>>]
    /\ last_sent_ts = [b \in Batchers |-> InitialLastSent]
    /\ wake = [b \in Batchers |-> 0]
    /\ delivered = [b \in Batchers |-> <<>>]
    /\ stopPc = [b \in Batchers |-> "idle"]

\* XrayService.on_connect(conn), for a channel c from peer p exposing root.
on_connect(c, p, rt, ping) ==
    /\ connState[c] = "closed"
    /\ c # connection
    /\ IF connection # NoConn /\ ~ProbeFailed(ping)
       THEN \* probe succeeded: return conn.close()
            /\ connState' = [connState EXCEPT ![c] = "stale"]
            /\ last' = Last("on_connect", "closed", "none", TRUE, ping)
            /\ UNCHANGED <<connection, peer, root>>
       ELSE /\ connection' = c
            /\ connState' = [d \in Conns |->
                               IF d = c THEN "open"
                               ELSE IF d = connection /\ connState[d] # "closed"
                               THEN "stale"
                               ELSE connState[d]]
            /\ root' = rt
            /\ peer' = p
            /\ last' = Last("on_connect", "ok", "none", TRUE, ping)
    /\ UNCHANGED <<core, running, procPeer, wired, hist>>
    /\ UNCHANGED lvars

\* A new channel takes the first identity no open or recorded channel holds
\* (NoConn when there is none).
FreeConns == {c \in Conns : connState[c] = "closed" /\ c # connection}

NewConn == IF FreeConns = {} THEN NoConn
           ELSE CHOOSE c \in FreeConns : \A d \in FreeConns : c <= d

\* The peer address and exposed callbacks are read only when the channel is
\* accepted, the probe only when a session is recorded.
Connect ==
    \E c \in {NewConn} \cap Conns :
        \E ping \in (IF connection = NoConn THEN {"none"} ELSE PingOutcomes(connection)) :
            IF connection # NoConn /\ ping = "ok"
            THEN on_connect(c, NoPeer, {}, ping)
            ELSE \E p \in Peers, rt \in SUBSET Callbacks : on_connect(c, p, rt, ping)

\* The transport of the recorded channel is lost, its disconnect notification
\* still to come (for any other channel only the notification is observed).
Lose ==
    \E c \in Conns \cap {connection} :
        /\ connState[c] = "open"
        /\ connState' = [connState EXCEPT ![c] = "lost"]
        /\ last' = Last("lose", "ok", "none", FALSE, "none")
        /\ UNCHANGED <<connection, core, peer, root, running, procPeer,
                       wired, hist>>
    /\ UNCHANGED lvars

HandlersStopped(a) == [b \in DOMAIN a |-> FALSE]

\* XrayService keeps no reference to the handlers fetch_logs returned: the
\* active flags a after the stop of the engine.
HandlersAfterStop(a) == a

AnyIsCurrent(c) == TRUE

\* if conn is self.connection:
IsCurrent(c) == c = connection

DisconnectKeepsHandle(s) == s

\* on_disconnect(): self.core = None
DisconnectClears(s) == [s EXCEPT !.core = NoCore, !.wired = {}]

\* XrayService.on_disconnect(conn): the transport's disconnect notification.
on_disconnect(c, out, cb) ==
    /\ connState[c] \in {"open", "lost", "stale"}
    /\ connState' = [connState EXCEPT ![c] = "closed"]
    /\ IF IsCurrent(c)
       THEN LET r == IF core # NoCore THEN CoreStop(Cur, out, cb)
                     ELSE [s |-> Cur, exc |-> "ok"]
            IN IF r.exc # "ok"
               THEN \* self.core.stop() raised: the two assignments are not reached
                    /\ Install(r.s)
                    /\ last' = Last("on_disconnect", r.exc, CbSummary({cb}), TRUE, "none")
                    /\ UNCHANGED connection
               ELSE /\ Install(DisconnectClears(r.s))
                    /\ connection' = NoConn
                    /\ last' = Last("on_disconnect", "ok", CbSummary({cb}), TRUE, "none")
       ELSE /\ last' = Last("on_disconnect", "stale", "none", FALSE, "none")
            /\ UNCHANGED <<connection, core, running, wired, procPeer>>
    /\ UNCHANGED <<peer, root, hist>>
    /\ active' = (IF IsCurrent(c) /\ core # NoCore THEN HandlersAfterStop(active) ELSE active)
    /\ UNCHANGED lvarsButActive

Disconnect ==
    \E c \in Conns :
        \E out \in (IF c = connection THEN StopOutChoices(Cur) ELSE {"ok"}),
           cb \in (IF c = connection THEN StopCbChoices(Cur, FALSE) ELSE {"none"}) :
            on_disconnect(c, out, cb)

StartNeverStops(c) == FALSE

\* if self.core is not None: self.stop()
StartStopsExisting(c) == c # NoCore

StartSwallows(exc) == "ok"

\* start(): except Exception as exc: logger.error(exc); raise exc
StartReraises(exc) == exc

ConfigPeerUnbound(p) == NoPeer

\* XRayConfig(config, self.connection.peer): the peer the configuration of
\* the process is bound to, for the recorded session's peer p.
ConfigPeer(p) == p

\* Whether the on_start/on_stop hook is registered on the new handle:
\* self.connection and hasattr(self.connection.root, name).
Wires(name) == connection # NoConn /\ name \in root

\* XrayService.start(config).
start(cfg, out, scb, launch, lcb) ==
    LET st   == IF StartStopsExisting(core) THEN StopF(Cur, out, scb)
                ELSE [s |-> Cur, exc |-> "ok"]
        s1   == st.s
        cerr == IF connection = NoConn THEN "AttributeError" ELSE ConfigOutcome(cfg)
        new  == NewCore(core, s1)
        w    == {n \in Callbacks : Wires(n)}
        s2   == [s1 EXCEPT !.core = new, !.wired = w]
        s3   == [s2 EXCEPT !.running = s2.running \cup {new},
                           !.procPeer[new] = ConfigPeer(peer)]
        herr == IF launch = "ok" /\ "on_start" \in w THEN HookResult(lcb) ELSE "ok"
        cbs  == {scb} \cup (IF launch = "ok" /\ "on_start" \in w THEN {lcb} ELSE {})
    IN /\ FreeCores(core, s1) # {}
       /\ IF st.exc # "ok"
          THEN \* self.stop() raised before the try block
               /\ Install(s1)
               /\ last' = Last("start", st.exc, CbSummary({scb}), FALSE, "none")
               /\ hist' = "none"
          ELSE IF cerr # "ok"
          THEN /\ Install(s1)
               /\ last' = Last("start", StartReraises(cerr), CbSummary({scb}), TRUE, cerr)
               /\ hist' = "none"
          ELSE IF launch # "ok"
          THEN /\ Install(s2)
               /\ last' = Last("start", StartReraises(launch), CbSummary(cbs), TRUE, launch)
               /\ hist' = "none"
          ELSE /\ Install(s3)
               /\ last' = Last("start", StartReraises(herr), CbSummary(cbs), herr # "ok", herr)
               /\ hist' = IF StartReraises(herr) # "ok" THEN "none"
                          ELSE IF hist \in {"start1", "start2"} THEN "start2"
                          ELSE "start1"
       /\ UNCHANGED <<connection, connState, peer, root>>
       /\ UNCHANGED lvars

\* The launch is reached only with a session and a valid configuration, the
\* on_start callback only by a launch that succeeded with the hook wired.
Start ==
    \E cfg \in Configs :
        \E out \in StopOutChoices(Cur), scb \in StopCbChoices(Cur, Live) :
            IF connection = NoConn \/ ConfigOutcome(cfg) # "ok"
            THEN start(cfg, out, scb, "none", "none")
            ELSE \/ start(cfg, out, scb, "ProcessError", "none")
                 \/ \E lcb \in (IF Wires("on_start")
                                 THEN CallbackOutcomes("on_start", Live)
                                 ELSE {"none"}) :
                        start(cfg, out, scb, "ok", lcb)

\* XrayService.stop().
stop(out, cb) ==
    LET r == StopF(Cur, out, cb)
    IN /\ Install(r.s)
       /\ last' = Last("stop", r.exc, CbSummary({cb}), FALSE, IF core = NoCore THEN "none" ELSE out)
       /\ hist' = "stop"
       /\ UNCHANGED <<connection, connState, peer, root>>
       /\ active' = (IF core # NoCore THEN HandlersAfterStop(active) ELSE active)
       /\ UNCHANGED lvarsButActive

Stop ==
    \E out \in StopOutChoices(Cur), cb \in StopCbChoices(Cur, Live) : stop(out, cb)

RestartHandleNew(s) == NewCore(s.core, s)

\* self.core.restart(config): the handle that is restarted and stays recorded.
RestartHandle(s) == s.core

\* XRayCore.restart(config) on the handle s.core: stop, then start again.
CoreRestart(s, scb, launch, lcb) ==
    LET r    == CoreStop(s, "ok", scb)
        h    == RestartHandle(s)
        s1   == [r.s EXCEPT !.core = h]
        s2   == IF launch = "ok"
                THEN [s1 EXCEPT !.running = s1.running \cup {h},
                                !.procPeer[h] = ConfigPeer(peer)]
                ELSE s1
        herr == IF launch = "ok" /\ "on_start" \in s.wired THEN HookResult(lcb) ELSE "ok"
    IN IF r.exc # "ok" THEN r
       ELSE [s |-> s2, exc |-> IF launch # "ok" THEN launch ELSE herr]

\* XrayService.restart(config).
restart(cfg, scb, launch, lcb) ==
    LET cerr == IF connection = NoConn THEN "AttributeError" ELSE ConfigOutcome(cfg)
        r    == IF cerr # "ok" THEN [s |-> Cur, exc |-> cerr]
                ELSE IF core = NoCore THEN [s |-> Cur, exc |-> "AttributeError"]
                ELSE CoreRestart(Cur, scb, launch, lcb)
        cbs  == IF cerr # "ok" \/ core = NoCore THEN {}
                ELSE {scb} \cup (IF launch = "ok" /\ "on_start" \in wired
                                 THEN {lcb} ELSE {})
    IN /\ Install(r.s)
       /\ last' = Last("restart", r.exc, CbSummary(cbs), FALSE, "none")
       /\ UNCHANGED <<connection, connState, peer, root, hist>>
       /\ UNCHANGED lvars

Restart ==
    \E cfg \in Configs :
        IF connection = NoConn \/ ConfigOutcome(cfg) # "ok" \/ core = NoCore
        THEN restart(cfg, "none", "none", "none")
        ELSE \E scb \in StopCbChoices(Cur, Live) :
                \/ restart(cfg, scb, "ProcessError", "none")
                \/ \E lcb \in (IF "on_start" \in wired
                                THEN CallbackOutcomes("on_start", Live)
                                ELSE {"none"}) :
                       restart(cfg, scb, "ok", lcb)

FetchRaisesUnlessRunning(c) == c = NoCore \/ c \notin running

\* if self.core is None: raise ProcessLookupError
FetchRaises(c) == c = NoCore

\* XrayService.fetch_xray_version().
fetch_xray_version ==
    /\ last' = Last("fetch_xray_version",
                    IF FetchRaises(core) THEN "ProcessLookupError" ELSE "version",
                    "none", FALSE, "none")
    /\ UNCHANGED <<connection, core, connState, peer, root, running,
                   procPeer, wired, hist>>
    /\ UNCHANGED lvars

\* if self.core is not None and self.core.started: self.core.stop()
UpdateStops(s) == s.core # NoCore /\ s.core \in s.running

\* XrayService.update_core(version): download, stop a started core, install.
update_core(download, cb, install) ==
    LET r == IF download = "ok" /\ UpdateStops(Cur) THEN CoreStop(Cur, "ok", cb)
             ELSE [s |-> Cur, exc |-> "ok"]
        e == IF download # "ok" THEN download
             ELSE IF ~StopSwallows(r.exc) THEN r.exc
             ELSE install
    IN /\ Install(r.s)
       /\ last' = Last("update_core", e,
                       IF download = "ok" THEN CbSummary({cb}) ELSE "none", FALSE,
                       "none")
       /\ UNCHANGED <<connection, connState, peer, root, hist>>
       /\ UNCHANGED lvars

UpdateCore ==
    \/ update_core("RuntimeError", "none", "none")
    \/ \E install \in {"ok", "RuntimeError"}, cb \in StopCbChoices(Cur, Live) :
          update_core("ok", cb, install)

\* The engine process of a handle ends by itself.
ProcessExit ==
    \E i \in running :
        /\ running' = running \ {i}
        /\ procPeer' = [procPeer EXCEPT ![i] = NoPeer]
        /\ last' = Last("process_exit", "ok", "none", FALSE, "none")
        /\ UNCHANGED <<connection, core, connState, peer, root, wired, hist>>
    /\ UNCHANGED lvars

\* ------------------------------------------------------- log batcher
LoopNeverEnds(a) == TRUE

\* while self.active: the loop test, for the flag value a.
LoopContinues(a) == a

\* while self.active:
cast_while(b) ==
    /\ pc[b] = "while"
    /\ pc' = [pc EXCEPT ![b] = IF LoopContinues(active[b]) THEN "flush" ELSE "done"]
    /\ UNCHANGED <<now, logs, produced, early, active, cache, last_sent_ts, wake,
                   delivered, stopPc>>
    /\ UNCHANGED svars

FlushDueAnyTime(b) == cache[b] # <<>>

\* if time.time() - last_sent_ts >= self.interval and cache:
FlushDue(b) == now - last_sent_ts[b] >= Interval /\ cache[b] # <<>>

\* The flush test; when it passes self.callback(cache) is invoked.
cast_flush(b) ==
    /\ pc[b] = "flush"
    /\ IF FlushDue(b)
       THEN /\ pc' = [pc EXCEPT ![b] = "callback"]
            /\ delivered' = [delivered EXCEPT
                               ![b] = Append(@, [t |-> now, payload |-> cache[b]])]
       ELSE /\ pc' = [pc EXCEPT ![b] = "check"]
            /\ UNCHANGED delivered
    /\ UNCHANGED <<now, logs, produced, early, active, cache, last_sent_ts, wake,
                   stopPc>>
    /\ UNCHANGED svars

CacheKept(c) == c

\* cache = '' once the callback has returned.
CacheAfterFlush(c) == <<>>

\* self.callback(cache) returns (cache = ''; last_sent_ts = time.time()) or
\* raises, which ends the thread.
cast_callback(b, outcome) ==
    /\ pc[b] = "callback"
    /\ IF outcome = "returned"
       THEN /\ cache' = [cache EXCEPT ![b] = CacheAfterFlush(@)]
            /\ last_sent_ts' = [last_sent_ts EXCEPT ![b] = now]
            /\ pc' = [pc EXCEPT ![b] = "check"]
       ELSE /\ pc' = [pc EXCEPT ![b] = "done"]
            /\ UNCHANGED <<cache, last_sent_ts>>
    /\ UNCHANGED <<now, logs, produced, early, active, wake, delivered, stopPc>>
    /\ UNCHANGED svars

\* When a time.sleep(0.2) begun now ends; a sleep that would outlast the
\* modelled clock ends with it.
WakeAt == IF now + Sleep > Epoch + MaxTime THEN Epoch + MaxTime ELSE now + Sleep

\* if not logs: time.sleep(0.2); continue
cast_check(b) ==
    /\ pc[b] = "check"
    /\ IF logs = <<>>
       THEN /\ pc' = [pc EXCEPT ![b] = "sleep"]
            /\ wake' = [wake EXCEPT ![b] = WakeAt]
       ELSE /\ pc' = [pc EXCEPT ![b] = "pop"]
            /\ UNCHANGED wake
    /\ UNCHANGED <<now, logs, produced, early, active, cache, last_sent_ts,
                   delivered, stopPc>>
    /\ UNCHANGED svars

\* time.sleep(0.2) has elapsed.
cast_wake(b) ==
    /\ pc[b] = "sleep"
    /\ now >= wake[b]
    /\ pc' = [pc EXCEPT ![b] = "while"]
    /\ UNCHANGED <<now, logs, produced, early, active, cache, last_sent_ts, wake,
                   delivered, stopPc>>
    /\ UNCHANGED svars

Prepended(c, log) == <<log, NL>> \o c

\* cache += f'{log}\n'
Appended(c, log) == c \o <<log, NL>>

\* log = logs.popleft(); cache += f'{log}\n'  (IndexError on an empty source)
cast_pop(b) ==
    /\ pc[b] = "pop"
    /\ IF logs # <<>>
       THEN /\ cache' = [cache EXCEPT ![b] = Appended(@, Head(logs))]
            /\ logs' = Tail(logs)
            /\ pc' = [pc EXCEPT ![b] = "while"]
       ELSE /\ pc' = [pc EXCEPT ![b] = "done"]
            /\ UNCHANGED <<cache, logs>>
    /\ UNCHANGED <<now, produced, early, active, last_sent_ts, wake, delivered,
                   stopPc>>
    /\ UNCHANGED svars

\* XrayCoreLogsHandler.stop(): self.active = False
logs_stop(b) ==
    /\ stopPc[b] = "idle"
    /\ active' = [active EXCEPT ![b] = FALSE]
    /\ stopPc' = [stopPc EXCEPT ![b] = "joining"]
    /\ UNCHANGED <<now, logs, produced, early, pc, cache, last_sent_ts, wake,
                   delivered>>
    /\ UNCHANGED svars

JoinReturnsAtOnce(p) == TRUE

\* self.thread.join() returns once the thread has ended.
JoinReturns(p) == p = "done"

logs_join(b) ==
    /\ stopPc[b] = "joining"
    /\ JoinReturns(pc[b])
    /\ stopPc' = [stopPc EXCEPT ![b] = "returned"]
    /\ UNCHANGED <<now, logs, produced, early, active, pc, cache, last_sent_ts,
                   wake, delivered>>
    /\ UNCHANGED svars

\* The engine writes its next line to the log source.
Produce ==
    /\ produced < MaxLines
    /\ produced' = produced + 1
    /\ logs' = Append(logs, produced + 1)
    /\ early' = IF now < Epoch + Interval THEN early + 1 ELSE early
    /\ UNCHANGED <<now, active, pc, cache, last_sent_ts, wake, delivered, stopPc>>
    /\ UNCHANGED svars

\* 0.1 s passes.
Tick ==
    /\ now < Epoch + MaxTime
    /\ now' = now + 1
    /\ UNCHANGED <<logs, produced, early, active, pc, cache, last_sent_ts, wake,
                   delivered, stopPc>>
    /\ UNCHANGED svars

\* One batcher, its caller and the engine.
NextLog ==
    \/ cast_while(1)
    \/ cast_flush(1)
    \/ \E outcome \in {"returned", "raised"} : cast_callback(1, outcome)
    \/ cast_check(1)
    \/ cast_wake(1)
    \/ cast_pop(1)
    \/ logs_stop(1)
    \/ logs_join(1)
    \/ Produce
    \/ Tick

SpecLog == Init /\ [][NextLog]_vars

\* The clock during the first idle sleep.
TickWithinSleep == now < Epoch + Sleep /\ Tick

\* Two batchers created by two fetch_logs calls on the same core drain the
\* same source, each in its own thread; the run is followed for the length
\* of one idle sleep.
NextLog2 ==
    \/ \E b \in Batchers : cast_while(b)
    \/ \E b \in Batchers : cast_flush(b)
    \/ \E b \in Batchers, outcome \in {"returned", "raised"} : cast_callback(b, outcome)
    \/ \E b \in Batchers : cast_check(b)
    \/ \E b \in Batchers : cast_wake(b)
    \/ \E b \in Batchers : cast_pop(b)
    \/ Produce
    \/ TickWithinSleep

SpecLog2 == Init /\ [][NextLog2]_vars

\* The state after on_connect, a successful start and one fetch_logs: a
\* session, a running engine and one batcher on its log source.
InitStream ==
    /\ connection = 1
    /\ core = 1
    /\ connState = [c \in Conns |-> IF c = 1 THEN "open" ELSE "closed"]
    /\ peer = 1
    /\ root = {}
    /\ running = {1}
    /\ procPeer = [i \in CoreIds |-> IF i = 1 THEN 1 ELSE NoPeer]
    /\ wired = {}
    /\ last = Last("fetch_logs", "ok", "none", FALSE, "none")
    /\ hist = "start1"
    /\ now = Epoch
    /\ logs = <<>>
    /\ produced = 0
    /\ early = 0
    /\ active = [b \in Batchers |-> TRUE]
    /\ pc = [b \in Batchers |-> "while"]
    /\ cache = [b \in Batchers |-> <<>>]
    /\ last_sent_ts = [b \in Batchers |-> InitialLastSent]
    /\ wake = [b \in Batchers |-> 0]
    /\ delivered = [b \in Batchers |-> <<>>]
    /\ stopPc = [b \in Batchers |-> "idle"]

\* The engine writes a line only while it runs.
ProduceRunning == core \in running /\ Produce

\* One batcher together with the operations that stop the engine.
NextStream ==
    \/ cast_while(1)
    \/ cast_flush(1)
    \/ \E outcome \in {"returned", "raised"} : cast_callback(1, outcome)
    \/ cast_check(1)
    \/ cast_wake(1)
    \/ cast_pop(1)
    \/ logs_stop(1)
    \/ logs_join(1)
    \/ ProduceRunning
    \/ Tick
    \/ Stop
    \/ Disconnect

SpecStream == InitStream /\ [][NextStream]_vars

\* The cast() thread, the clock and a pending join are scheduled: each takes
\* its next step eventually (the callback is assumed to end).
FairLog ==
    /\ WF_vars(cast_while(1))
    /\ WF_vars(cast_flush(1))
    /\ WF_vars(\E outcome \in {"returned", "raised"} : cast_callback(1, outcome))
    /\ WF_vars(cast_check(1))
    /\ WF_vars(cast_wake(1))
    /\ WF_vars(cast_pop(1))
    /\ WF_vars(logs_join(1))
    /\ WF_vars(Tick)

SpecLogFair == SpecLog /\ FairLog

Next ==
    \/ Connect
    \/ Lose
    \/ Disconnect
    \/ Start
    \/ Stop
    \/ Restart
    \/ fetch_xray_version
    \/ UpdateCore
    \/ ProcessExit

Spec == Init /\ [][Next]_vars

\* ================================================================ claims
ServiceState == <<connection, core, connState, peer, root, running, procPeer, wired>>

\* ---------------------------------------------------------------- C1
\* C1: a connect that arrives while a session is recorded becomes the
\* recorded session exactly when the liveness probe against the recorded one
\* fails; when the probe succeeds the new channel is closed and the record
\* (channel and peer) stays as it was.  A closed channel is never the
\* recorded one afterwards, so one session at most is current.
C1_ConnectStep(c) == connState[c] = "closed" /\ connState'[c] # "closed"

C1_SecondSessionIffProbeFails ==
    [][\A c \in Conns :
         (C1_ConnectStep(c) /\ connection # NoConn) =>
            /\ last'.op = "on_connect"
            /\ (connection' = c) <=>
                   (last'.inner \in {"EOFError", "TimeoutError", "AttributeError"})
            /\ (last'.inner = "ok") =>
                   /\ connState'[c] = "stale"
                   /\ connection' = connection
                   /\ peer' = peer
                   /\ last'.ret = "closed"
            /\ \A d \in Conns : connState'[d] = "stale" => d # connection']_vars

C1_Witness ==
    /\ last.op = "on_connect"
    /\ last.inner = "TimeoutError"
    /\ last.ret = "ok"
    /\ \E d \in Conns : connState[d] = "stale"

\* ---------------------------------------------------------------- C2
\* C2: a start(config) that returns normally after an earlier start, with no
\* stop() in between, leaves exactly one engine process running, the one of
\* the recorded handle; the process of the handle recorded before is stopped.
C2_TwoStartsOneProcess ==
    [][(last'.op = "start" /\ last'.ret = "ok" /\ hist \in {"start1", "start2"}) =>
          /\ Cardinality(running') = 1
          /\ running' = {core'}
          /\ core # NoCore => (core # core' /\ core \notin running')]_vars

C2_Witness ==
    /\ hist = "start2"
    /\ last.op = "start"
    /\ last.ret = "ok"
    /\ running = {core}

\* ---------------------------------------------------------------- C3
\* C3: once stop() on a log batcher has returned, no callback invocation of
\* that batcher is in progress and none starts.
C3_NoCallbackAfterStop ==
    [][\A b \in Batchers :
         stopPc[b] = "returned" =>
            /\ pc[b] # "callback"
            /\ pc'[b] # "callback"
            /\ delivered'[b] = delivered[b]]_vars

C3_Witness ==
    /\ stopPc[1] = "returned"
    /\ delivered[1] # <<>>
    /\ logs # <<>>
    /\ produced = MaxLines

\* ---------------------------------------------------------------- C4
\* C4: fetch_xray_version() called after stop(), with no start in between,
\* raises ProcessLookupError.
C4_StopThenFetchFails ==
    (last.op = "fetch_xray_version" /\ hist = "stop") => last.ret = "ProcessLookupError"

C4_Witness ==
    /\ last.op = "fetch_xray_version"
    /\ hist = "stop"
    /\ last.ret = "ProcessLookupError"
    /\ connection # NoConn

\* ---------------------------------------------------------------- C5
\* The text of lines 1..n as cast() builds it: each line, then a newline.
Payload(n) == [i \in 1..(2 * n) |-> IF i % 2 = 1 THEN (i + 1) \div 2 ELSE NL]

RECURSIVE Concat(_)
Concat(ds) == IF ds = <<>> THEN <<>> ELSE ds[1].payload \o Concat(Tail(ds))

\* C5 as claimed: the first callback of a new batcher fires no earlier than
\* one interval after its creation and carries, in order, every line that
\* reached the source within that interval.
C5_OneBatchAfterInterval ==
    delivered[1] # <<>> =>
        /\ delivered[1][1].t >= Epoch + Interval
        /\ Len(delivered[1][1].payload) >= 2 * early
        /\ SubSeq(delivered[1][1].payload, 1, 2 * early) = Payload(early)

\* C5 as amended: the first callback of a new batcher carries the first line
\* alone and does not wait for the interval; each later callback fires no
\* earlier than one interval after the one before it, and the payloads are,
\* in order, the lines taken from the source, each followed by a newline.
C5_FirstLineAloneThenBatches ==
    delivered[1] # <<>> =>
        /\ delivered[1][1].payload = <<1, NL>>
        /\ \A k \in 2..Len(delivered[1]) :
              /\ delivered[1][k].t >= delivered[1][k - 1].t + Interval
              /\ delivered[1][k].payload # <<>>
        /\ Concat(delivered[1]) = Payload(Len(Concat(delivered[1])) \div 2)

C5_Witness ==
    /\ early >= 2
    /\ Len(delivered[1]) = 2
    /\ delivered[1][1] = [t |-> Epoch, payload |-> <<1, NL>>]
    /\ delivered[1][2].payload = <<2, NL>>
    /\ delivered[1][2].t >= Epoch + Interval

\* ---------------------------------------------------------------- C6
\* C6: stop() raises nothing and leaves no handle recorded; without a handle
\* it changes nothing; with one, the process of that handle is not running
\* afterwards, also when the process reported "already stopped".
C6_StopIdempotent ==
    [][last'.op = "stop" =>
          /\ last'.ret = "ok"
          /\ core' = NoCore
          /\ core # NoCore => core \notin running'
          /\ core = NoCore => ServiceState' = ServiceState]_vars

C6_Witness ==
    /\ last.op = "stop"
    /\ last.inner = "RuntimeError"
    /\ last.ret = "ok"
    /\ core = NoCore

\* ---------------------------------------------------------------- C7
\* C7 as claimed: fetch_xray_version() raises whenever no engine process is
\* running and returns a version only while one is.
C7_FailsWheneverNotRunning ==
    last.op = "fetch_xray_version" =>
        (last.ret = "version" <=> (core # NoCore /\ core \in running))

\* C7 as amended: fetch_xray_version() raises ProcessLookupError exactly when
\* no handle is recorded; with a handle recorded it returns the version, also
\* when the process of the handle is not running.
C7_FailsIffNoHandle ==
    last.op = "fetch_xray_version" =>
        /\ last.ret \in {"version", "ProcessLookupError"}
        /\ last.ret = "ProcessLookupError" <=> core = NoCore

C7_Witness ==
    /\ last.op = "fetch_xray_version"
    /\ last.ret = "version"
    /\ core # NoCore
    /\ core \notin running

\* ---------------------------------------------------------------- C8
\* C8: start(config) raises what its try block raised (a failed config
\* construction or launch) after logging it, and when it returns normally the
\* process of the recorded handle is running.
C8_StartNeverSilent ==
    last.op = "start" =>
        /\ last.ret = last.inner
        /\ last.ret # "ok" => last.logged
        /\ last.ret = "ok" => (core # NoCore /\ core \in running)

C8_Witness ==
    /\ last.op = "start"
    /\ last.ret = "ProcessError"
    /\ last.logged
    /\ core # NoCore
    /\ core \notin running

\* ---------------------------------------------------------------- C9
\* C9: when a controller callback raises inside a hook, start()/stop() end
\* as they would have without it: stop() returns with the handle cleared,
\* start() raises only a config or launch error and otherwise returns with
\* the process running.
C9_CallbackFailureContained ==
    /\ (last.op = "stop" /\ last.cb = "raised") =>
           (last.ret = "ok" /\ core = NoCore /\ running = {})
    /\ (last.op = "start" /\ last.cb = "raised") =>
           /\ last.ret \in {"ok", "ConfigError", "ProcessError"}
           /\ last.ret = last.inner
           /\ last.ret = "ok" => (core # NoCore /\ running = {core})

C9_Witness ==
    /\ last.op = "start"
    /\ last.cb = "raised"
    /\ last.ret = "ok"
    /\ "on_start" \in wired
    /\ running = {core}

\* ---------------------------------------------------------------- C10
\* C10: restart(config) without a recorded handle raises and changes nothing;
\* with one, the same handle stays recorded, and its process runs when
\* restart returns normally.
C10_RestartInPlace ==
    [][last'.op = "restart" =>
          /\ core = NoCore => (last'.ret # "ok" /\ ServiceState' = ServiceState)
          /\ core # NoCore => core' = core
          /\ last'.ret = "ok" => (core # NoCore /\ core \in running')]_vars

C10_Witness ==
    /\ last.op = "restart"
    /\ last.ret = "AttributeError"
    /\ core = NoCore
    /\ connection # NoConn
    /\ running = {}

\* ---------------------------------------------------------------- C11
\* C11: with one batcher, the payloads delivered so far, put end to end, are
\* the first k lines the engine wrote, in order, each followed by a newline,
\* and every payload is a whole number of lines.
C11_PayloadsArePrefix ==
    /\ \E k \in 0..produced : Concat(delivered[1]) = Payload(k)
    /\ \A j \in 1..Len(delivered[1]) :
          /\ Len(delivered[1][j].payload) % 2 = 0
          /\ delivered[1][j].payload[Len(delivered[1][j].payload)] = NL

C11_Witness ==
    /\ Len(delivered[1]) = 2
    /\ delivered[1][2].payload = <<2, NL, 3, NL>>

RECURSIVE LinesOf(_)
\* The lines of a payload or cache (the newlines left out).
LinesOf(s) == IF s = <<>> THEN {} ELSE {s[1]} \cup LinesOf(Tail(Tail(s)))

\* The lines handed to the callback of batcher b so far.
DeliveredLines(b) == LinesOf(Concat(delivered[b]))

\* C13 as claimed: with two batchers on one source no line reaches both
\* callbacks, and no pop of either loop finds the source empty and ends the
\* loop.
C13_CompeteWithoutFailing ==
    [][ /\ DeliveredLines(1)' \cap DeliveredLines(2)' = {}
        /\ \A b \in Batchers : pc[b] = "pop" => pc'[b] # "done" ]_vars

\* ---------------------------------------------------------------- C16
\* C16: consecutive callback invocations of a batcher are at least one
\* interval apart, and no callback is invoked with an empty buffer.
C16_CallbacksSpaced ==
    \A k \in 1..Len(delivered[1]) :
        /\ delivered[1][k].payload # <<>>
        /\ k > 1 => delivered[1][k].t - delivered[1][k - 1].t >= Interval

C16_Witness ==
    /\ Len(delivered[1]) = 2
    /\ produced = MaxLines
    /\ delivered[1][2].t - delivered[1][1].t = Interval

\* ---------------------------------------------------------------- C17
\* C17: once stop() has set the flag, the loop ends and the join returns.
C17_StopTerminates == (stopPc[1] = "joining") ~> (stopPc[1] = "returned")

C17_Witness ==
    /\ stopPc[1] = "returned"
    /\ logs # <<>>
    /\ cache[1] # <<>>

\* ---------------------------------------------------------------- C20
\* The lines a batcher holds that no callback was given: its cache, unless
\* the cache is the payload of a callback that has not returned.
Pending(b) ==
    IF delivered[b] # <<>> /\ cache[b] = delivered[b][Len(delivered[b])].payload
    THEN <<>>
    ELSE cache[b]

\* C20 as claimed: when a batcher has stopped, every line it took from the
\* source has been given to a callback.
C20_NoLineLost ==
    pc[1] = "done" => Concat(delivered[1]) = Payload(produced - Len(logs))

\* C20 as amended: at every moment the lines taken from the source are the
\* lines delivered followed by the lines pending in the cache, none twice
\* (the lines pending when the loop ends stay there).
C20_DeliveredOrPending ==
    Concat(delivered[1]) \o Pending(1) = Payload(produced - Len(logs))

C20_Witness ==
    /\ pc[1] = "done"
    /\ stopPc[1] = "returned"
    /\ Pending(1) = <<2, NL>>
    /\ Concat(delivered[1]) = <<1, NL>>

\* ---------------------------------------------------------------- C14
\* C14: a disconnect notification from a channel that is not the recorded
\* session changes neither the session record, nor the handle, nor the
\* running process.
C14_StaleDisconnectIgnored ==
    [][ (\E c \in Conns : /\ connState[c] # "closed"
                          /\ connState'[c] = "closed"
                          /\ c # connection)
        => UNCHANGED <<connection, peer, root, core, running, procPeer, wired>> ]_vars

C14_Witness ==
    /\ last.op = "on_disconnect"
    /\ last.ret = "stale"
    /\ connection # NoConn
    /\ core \in running

\* ---------------------------------------------------------------- C15
\* C15 as claimed: once the disconnect of the recorded session has been
\* handled, whatever the engine's stop reported, no session and no handle
\* are recorded and no process runs.
C15_DisconnectClearsAll ==
    (last.op = "on_disconnect" /\ last.ret # "stale")
        => (connection = NoConn /\ core = NoCore /\ running = {})

\* ---------------------------------------------------------------- C18
\* C18: a recorded handle implies a recorded session.
C18_HandleImpliesSession == core # NoCore => connection # NoConn

C18_Witness ==
    /\ last.op = "start"
    /\ last.ret = "ProcessError"
    /\ core # NoCore
    /\ connection # NoConn

\* ---------------------------------------------------------------- C19
\* C19 as claimed: every running process has its configuration bound to the
\* peer of the session recorded now.
C19_RunningBoundToSession ==
    \A i \in running : connection # NoConn /\ procPeer[i] = peer

\* C19 as amended: a running process is the one of the recorded handle and
\* is bound to the peer of the session that was recorded when it was
\* started or restarted; accepting a session in place of a lost one leaves
\* the handle and its process as they are.
C19_BoundWhenStarted ==
    [][ /\ running' \subseteq {core'}
        /\ \A i \in running' : procPeer'[i] \in Peers
        /\ (last'.op \in {"start", "restart"} /\ last'.ret = "ok")
              => (core' \in running' /\ procPeer'[core'] = peer')
        /\ (last'.op = "on_connect" /\ connection # NoConn /\ connection' # connection)
              => UNCHANGED <<core, running, procPeer>> ]_vars

C19_Witness ==
    /\ last.op = "on_connect"
    /\ last.ret = "ok"
    /\ last.inner # "none"
    /\ core \in running
    /\ procPeer[core] # peer

====
